---- MODULE Spec2Model ----
(***************************************************************************)
(* The scene store of src/src/store/sceneStore.ts (a zustand store): the   *)
(* object and group registry, the selection and the edit-mode state.       *)
(* Every store action is one synchronous set(...) call, so every action    *)
(* below is one step.  set(fn) merges the partial state fn returns into    *)
(* the store; `return state` merges the state into itself.                 *)
(*                                                                         *)
(* Ids are crypto.randomUUID() strings: the model draws them from one      *)
(* counter, so an id is never handed out twice.  A mesh handle is a        *)
(* JavaScript reference; the handle passed to addObject is a new object,   *)
(* and the model names it by the number the counter held when it was       *)
(* registered (each scene object owns its mesh exclusively).               *)
(* Display names and the UI-only `expanded` flag are left out.             *)
(*                                                                         *)
(* A vertex position is a vector of three integers, counted in steps of    *)
(* half the store's coincidence epsilon (0.0001), so that two vertices can *)
(* be closer than the epsilon without being equal.  A geometry buffer      *)
(* (geometry.attributes.position) is a function from the indices           *)
(* 0..count-1 to positions; normals are left out.                          *)
(***************************************************************************)
EXTENDS Integers, Sequences, FiniteSets, TLC

\* ------------------------------------------------------------- bounds
\* ids handed out in one run (objects and groups together)
MaxIds == 4
\* ids handed out in one run of the visibility specification
MaxVisIds == 3
\* meshes made in one run of the selection and edit-mode specification
MaxMeshes == 2
\* longest objectIds argument of createGroup / moveObjectsToGroup
MaxBatch == 2
\* objects and groups made in one run of the group link specification
MaxLinkIds == 3
\* largest vertexCount argument of a sphere regeneration in the sphere
\* specification
MaxSphereCount == 5
\* largest vertexCount argument of a regeneration
MaxSegments == 3
\* largest coordinate an edge drag may move a vertex to
MaxCoord == 3

\* ---------------------------------------------------------- constants
\* null / undefined (no selection, no group)
Null == 0

\* geometry classes of three.js that the store tests with instanceof;
\* "other" is any other BufferGeometry (a box), "object3d" an Object3D
\* that is no Mesh (a light, a THREE.Group)
Kinds == {"sphere", "cylinder", "cone", "other", "object3d"}

EditModes == {"vertex", "edge", "null"}
TransformModes == {"translate", "rotate", "scale", "null"}

VARIABLES
    objects,         \* state.objects: sequence of [id, object, visible, groupId]
    groups,          \* state.groups: sequence of [id, visible, objectIds]
    selectedObject,  \* state.selectedObject: a mesh handle or Null
    transformMode,   \* state.transformMode
    editMode,        \* state.editMode
    geometry,        \* the geometry class of every mesh handle made so far
    nextId,          \* the next fresh id (crypto.randomUUID)
    last,            \* the last call and its arguments (history, not store state)
    selectedElements, \* state.selectedElements: [vertices, edges, faces]
    draggedVertex,   \* state.draggedVertex: NoDrag or [indices, position, initialPosition]
    draggedEdge,     \* state.draggedEdge: NoDrag or [indices, positions,
                     \*   initialPositions, connectedVertices, midpoint]
    buffers          \* geometry.attributes.position of every mesh handle

\* the store's own fields
storeVars == <<objects, groups, selectedObject, transformMode, editMode,
               selectedElements, draggedVertex, draggedEdge>>
vars == <<objects, groups, selectedObject, transformMode, editMode, geometry, nextId, last,
          selectedElements, draggedVertex, draggedEdge, buffers>>

\* ------------------------------------------------------------ helpers
\* Array.prototype.includes
Includes(seq, x) == \E i \in 1..Len(seq) : seq[i] = x

\* Array.prototype.map
Map(seq, F(_)) == [i \in 1..Len(seq) |-> F(seq[i])]

\* Array.prototype.filter
Filter(seq, P(_)) == SelectSeq(seq, P)

\* ids handed out so far
UsedIds == 1..(nextId - 1)

\* mesh handles made so far (registered or removed since)
Handles == {h \in UsedIds : geometry[h] # "none"}

\* sequences of distinct members of S, at most n long
RECURSIVE DistinctSeqs(_, _)
DistinctSeqs(S, n) ==
    IF n = 0 THEN {<<>>}
    ELSE LET shorter == DistinctSeqs(S, n - 1)
         IN  shorter \cup
               {Append(p[1], p[2]) : p \in {q \in shorter \X S : ~Includes(q[1], q[2])}}

\* the record of a call: its name, its id argument and its list argument
Call(op, id, ids) == [op |-> op, id |-> id, ids |-> ids]

\* object instanceof THREE.Mesh
IsMesh(o) == o # Null /\ geometry[o] \notin {"none", "object3d"}

\* geometry instanceof THREE.<cls>; ConeGeometry extends CylinderGeometry
InstanceOf(k, cls) ==
    CASE cls = "SphereGeometry"   -> k = "sphere"
      [] cls = "CylinderGeometry" -> k \in {"cylinder", "cone"}
      [] cls = "ConeGeometry"     -> k = "cone"

\* no drag session (draggedVertex: null, draggedEdge: null)
NoDrag == [null |-> TRUE]

\* the selectedElements of the initial state and after a regeneration
NoElements == [vertices |-> <<>>, edges |-> <<>>, faces |-> <<>>]

\* the Euclidean distance below which two vertices coincide: 0.0001, in
\* steps of 0.00005
Epsilon == 2

\* THREE.Vector3: sub, add and the square of distanceTo
VSub(a, b) == <<a[1] - b[1], a[2] - b[2], a[3] - b[3]>>
VAdd(a, b) == <<a[1] + b[1], a[2] + b[2], a[3] + b[3]>>
DistSq(a, b) ==
    LET d == VSub(a, b) IN d[1] * d[1] + d[2] * d[2] + d[3] * d[3]

\* pos.distanceTo(selectedPos) < 0.0001
Coincide(a, b) == DistSq(a, b) < Epsilon * Epsilon

\* the members of a set of indices in rising order (a scan i = 0, 1, ...)
RECURSIVE Ascending(_)
Ascending(S) ==
    IF S = {} THEN <<>>
    ELSE LET m == CHOOSE x \in S : \A y \in S : x <= y
         IN  <<m>> \o Ascending(S \ {m})

\* the position buffer three.js builds for a geometry of n segments, cut
\* down to one ring: n + 1 vertices well apart from each other, the last one
\* the seam duplicate of the first, which the rounding of sin and cos at the
\* full turn puts next to the first, closer than the epsilon, not on it.
\* An Object3D that is no mesh has none.
NewBuffer(k, n) ==
    IF k = "object3d" THEN <<>>
    ELSE [i \in 0..n |-> IF i = n THEN <<1, 0, 0>> ELSE <<(Epsilon + 1) * i, 0, 0>>]

\* the geometry a caller hands to addObject: a ring of two segments
InitialBuffer(k) == NewBuffer(k, 2)

\* positions.count
Count(buffer) == Cardinality(DOMAIN buffer)

\* -------------------------------------------------------------- Init
Init ==
    /\ objects = <<>>
    /\ groups = <<>>
    /\ selectedObject = Null
    /\ transformMode = "null"
    /\ editMode = "null"
    /\ geometry = [h \in 1..(MaxIds + MaxVisIds + MaxMeshes) |-> "none"]
    /\ nextId = 1
    /\ last = Call("init", Null, <<>>)
    /\ selectedElements = NoElements
    /\ draggedVertex = NoDrag
    /\ draggedEdge = NoDrag
    /\ buffers = [h \in 1..(MaxIds + MaxVisIds + MaxMeshes) |-> <<>>]

\* ----------------------------------------------------------- actions
\* mutant of NewObjectId: the id is the place in the list
NewObjectId_FromCount == Len(objects) + 1

\* addObject: crypto.randomUUID(), an id never handed out before
NewObjectId == nextId

\* addObject(object, name), object a new mesh of class k
AddObject(k) ==
    /\ objects' = Append(objects, [id |-> NewObjectId, object |-> nextId,
                                   visible |-> TRUE, groupId |-> Null])
    /\ geometry' = [geometry EXCEPT ![nextId] = k]
    /\ buffers' = [buffers EXCEPT ![nextId] = InitialBuffer(k)]
    /\ nextId' = nextId + 1
    /\ last' = Call("addObject", nextId, <<>>)
    /\ UNCHANGED <<groups, selectedObject, transformMode, editMode,
                 selectedElements, draggedVertex, draggedEdge>>

\* state.objects.find(obj => obj.id === id): the first match, or none
HasObject(id) == \E i \in 1..Len(objects) : objects[i].id = id
FindObject(id) == objects[CHOOSE i \in 1..Len(objects) :
                            /\ objects[i].id = id
                            /\ \A j \in 1..(i - 1) : objects[j].id # id]

\* state.groups.find(g => g.id === groupId)
HasGroup(groupId) == \E i \in 1..Len(groups) : groups[i].id = groupId
FindGroup(groupId) == groups[CHOOSE i \in 1..Len(groups) :
                               /\ groups[i].id = groupId
                               /\ \A j \in 1..(i - 1) : groups[j].id # groupId]

\* removeObject: updatedGroups
RemoveObjectGroups(id) ==
    Map(groups, LAMBDA group :
        [group EXCEPT !.objectIds = Filter(group.objectIds, LAMBDA objId : objId # id)])

\* removeObject: the objects of the returned state
RemoveObjectObjects(id) == Filter(objects, LAMBDA obj : obj.id # id)

\* mutant of RemoveObjectSelected: the selection is never cleared
RemoveObjectSelected_KeepsSelection(id) == selectedObject

\* mutant of RemoveObjectSelected: only a visible object is deselected
RemoveObjectSelected_VisibleOnly(id) ==
    IF HasObject(id) /\ FindObject(id).object = selectedObject /\ FindObject(id).visible
    THEN Null
    ELSE selectedObject

\* removeObject: the selectedObject of the returned state
RemoveObjectSelected(id) ==
    IF HasObject(id) /\ FindObject(id).object = selectedObject
    THEN Null
    ELSE selectedObject

\* removeObject(id)
RemoveObject(id) ==
    /\ objects' = RemoveObjectObjects(id)
    /\ groups' = RemoveObjectGroups(id)
    /\ selectedObject' = RemoveObjectSelected(id)
    /\ last' = Call("removeObject", id, <<>>)
    /\ UNCHANGED <<transformMode, editMode, geometry, nextId,
                 selectedElements, draggedVertex, draggedEdge, buffers>>

\* mutant of SelectEditMode: the sphere test is left out
SelectEditMode_NoSphere(object) ==
    IF /\ IsMesh(object)
       /\ \/ InstanceOf(geometry[object], "CylinderGeometry")
          \/ InstanceOf(geometry[object], "ConeGeometry")
    THEN "vertex"
    ELSE editMode

\* setSelectedObject: newEditMode
SelectEditMode(object) ==
    IF /\ IsMesh(object)
       /\ \/ InstanceOf(geometry[object], "SphereGeometry")
          \/ InstanceOf(geometry[object], "CylinderGeometry")
          \/ InstanceOf(geometry[object], "ConeGeometry")
    THEN "vertex"
    ELSE editMode

\* mutant of SelectTransformMode: the transform mode is kept
SelectTransformMode_Kept(object) == transformMode

\* setSelectedObject: the transformMode of the returned state
SelectTransformMode(object) == "null"

\* setSelectedObject(object)
SetSelectedObject(object) ==
    /\ selectedObject' = object
    /\ editMode' = SelectEditMode(object)
    /\ transformMode' = SelectTransformMode(object)
    /\ last' = Call("setSelectedObject", object, <<>>)
    /\ UNCHANGED <<objects, groups, geometry, nextId,
                 selectedElements, draggedVertex, draggedEdge, buffers>>

\* setTransformMode(mode)
SetTransformMode(mode) ==
    /\ transformMode' = mode
    /\ last' = Call("setTransformMode", Null, <<mode>>)
    /\ UNCHANGED <<objects, groups, selectedObject, editMode, geometry, nextId,
                 selectedElements, draggedVertex, draggedEdge, buffers>>

\* mutant of EdgeModeRejected: the sphere test is left out
EdgeModeRejected_NoSphere(mode) ==
    /\ mode = "edge"
    /\ IsMesh(selectedObject)
    /\ \/ InstanceOf(geometry[selectedObject], "CylinderGeometry")
       \/ InstanceOf(geometry[selectedObject], "ConeGeometry")

\* mutant of EdgeModeRejected: the cylinder test is left out
EdgeModeRejected_NoCylinder(mode) ==
    /\ mode = "edge"
    /\ IsMesh(selectedObject)
    /\ \/ InstanceOf(geometry[selectedObject], "ConeGeometry")
       \/ InstanceOf(geometry[selectedObject], "SphereGeometry")

\* setEditMode: the guard that keeps edge mode off unsupported geometry
EdgeModeRejected(mode) ==
    /\ mode = "edge"
    /\ IsMesh(selectedObject)
    /\ \/ InstanceOf(geometry[selectedObject], "CylinderGeometry")
       \/ InstanceOf(geometry[selectedObject], "ConeGeometry")
       \/ InstanceOf(geometry[selectedObject], "SphereGeometry")

\* setEditMode(mode)
SetEditMode(mode) ==
    /\ IF EdgeModeRejected(mode)
       THEN UNCHANGED editMode
       ELSE editMode' = mode
    /\ last' = Call("setEditMode", Null, <<mode>>)
    /\ UNCHANGED <<objects, groups, selectedObject, transformMode, geometry, nextId,
                 selectedElements, draggedVertex, draggedEdge, buffers>>

\* toggleVisibility: updatedObjects
ToggleVisibilityObjects(id) ==
    Map(objects, LAMBDA obj :
        IF obj.id = id THEN [obj EXCEPT !.visible = ~obj.visible] ELSE obj)

\* mutant of ToggleVisibilitySelected: the new visibility is not looked at
ToggleVisibilitySelected_AnyVisibility(id) ==
    IF HasObject(id) /\ FindObject(id).object = selectedObject
    THEN Null
    ELSE selectedObject

\* toggleVisibility: newSelectedObject
ToggleVisibilitySelected(id) ==
    LET updatedObjects == ToggleVisibilityObjects(id)
        has == \E i \in 1..Len(updatedObjects) : updatedObjects[i].id = id
        toggledObject == updatedObjects[CHOOSE i \in 1..Len(updatedObjects) :
                            /\ updatedObjects[i].id = id
                            /\ \A j \in 1..(i - 1) : updatedObjects[j].id # id]
    IN  IF has /\ ~toggledObject.visible /\ toggledObject.object = selectedObject
        THEN Null
        ELSE selectedObject

\* toggleVisibility(id)
ToggleVisibility(id) ==
    /\ objects' = ToggleVisibilityObjects(id)
    /\ selectedObject' = ToggleVisibilitySelected(id)
    /\ last' = Call("toggleVisibility", id, <<>>)
    /\ UNCHANGED <<groups, transformMode, editMode, geometry, nextId,
                 selectedElements, draggedVertex, draggedEdge, buffers>>

\* createGroup: newGroup
NewGroup(objectIds) == [id |-> nextId, visible |-> TRUE, objectIds |-> objectIds]

\* createGroup: updatedObjects
CreateGroupObjects(objectIds) ==
    Map(objects, LAMBDA obj :
        IF Includes(objectIds, obj.id) THEN [obj EXCEPT !.groupId = nextId] ELSE obj)

\* createGroup: the groups of the returned state
CreateGroupGroups(objectIds) == Append(groups, NewGroup(objectIds))

\* createGroup(name, objectIds)
CreateGroup(objectIds) ==
    /\ groups' = CreateGroupGroups(objectIds)
    /\ objects' = CreateGroupObjects(objectIds)
    /\ nextId' = nextId + 1
    /\ last' = Call("createGroup", nextId, objectIds)
    /\ UNCHANGED <<selectedObject, transformMode, editMode, geometry,
                 selectedElements, draggedVertex, draggedEdge, buffers>>

\* mutant of RemoveGroupObjects: the members are deleted with the group
RemoveGroupObjects_DeletesMembers(groupId) ==
    Filter(objects, LAMBDA obj : obj.groupId # groupId)

\* removeGroup: updatedObjects
RemoveGroupObjects(groupId) ==
    Map(objects, LAMBDA obj :
        IF obj.groupId = groupId THEN [obj EXCEPT !.groupId = Null] ELSE obj)

\* removeGroup: the groups of the returned state
RemoveGroupGroups(groupId) == Filter(groups, LAMBDA group : group.id # groupId)

\* removeGroup(groupId)
RemoveGroup(groupId) ==
    /\ groups' = RemoveGroupGroups(groupId)
    /\ objects' = RemoveGroupObjects(groupId)
    /\ last' = Call("removeGroup", groupId, <<>>)
    /\ UNCHANGED <<selectedObject, transformMode, editMode, geometry, nextId,
                 selectedElements, draggedVertex, draggedEdge, buffers>>

\* toggleGroupVisibility: updatedGroups
ToggleGroupGroups(groupId) ==
    LET newVisibility == ~FindGroup(groupId).visible
    IN  Map(groups, LAMBDA g :
            IF g.id = groupId THEN [g EXCEPT !.visible = newVisibility] ELSE g)

\* toggleGroupVisibility: updatedObjects
ToggleGroupObjects(groupId) ==
    LET group == FindGroup(groupId)
        newVisibility == ~group.visible
    IN  Map(objects, LAMBDA obj :
            IF Includes(group.objectIds, obj.id)
            THEN [obj EXCEPT !.visible = newVisibility]
            ELSE obj)

\* mutant of ToggleGroupSelected: the new visibility is not looked at
ToggleGroupSelected_AnyVisibility(groupId) ==
    LET group == FindGroup(groupId)
    IN  IF \E i \in 1..Len(objects) :
               objects[i].object = selectedObject /\ Includes(group.objectIds, objects[i].id)
        THEN Null
        ELSE selectedObject

\* toggleGroupVisibility: newSelectedObject
ToggleGroupSelected(groupId) ==
    LET group == FindGroup(groupId)
        newVisibility == ~group.visible
        has == \E i \in 1..Len(objects) : objects[i].object = selectedObject
        selectedObj == objects[CHOOSE i \in 1..Len(objects) :
                          /\ objects[i].object = selectedObject
                          /\ \A j \in 1..(i - 1) : objects[j].object # selectedObject]
    IN  IF has /\ Includes(group.objectIds, selectedObj.id) /\ ~newVisibility
        THEN Null
        ELSE selectedObject

\* toggleGroupVisibility(groupId)
ToggleGroupVisibility(groupId) ==
    /\ IF ~HasGroup(groupId)
       THEN UNCHANGED <<groups, objects, selectedObject>>
       ELSE /\ groups' = ToggleGroupGroups(groupId)
            /\ objects' = ToggleGroupObjects(groupId)
            /\ selectedObject' = ToggleGroupSelected(groupId)
    /\ last' = Call("toggleGroupVisibility", groupId, <<>>)
    /\ UNCHANGED <<transformMode, editMode, geometry, nextId,
                 selectedElements, draggedVertex, draggedEdge, buffers>>

\* mutant of MoveGroups: the ids are appended to the target but not taken
\* out of the lists they were in
MoveGroups_NoUnlink(objectIds, groupId) ==
    IF groupId # Null
    THEN Map(groups, LAMBDA group :
             IF group.id = groupId
             THEN [group EXCEPT !.objectIds = group.objectIds \o objectIds]
             ELSE group)
    ELSE groups

\* moveObjectsToGroup: finalGroups (groupId is truthy unless it is null)
MoveGroups(objectIds, groupId) ==
    LET updatedGroups ==
            Map(groups, LAMBDA group :
                [group EXCEPT !.objectIds =
                    Filter(group.objectIds, LAMBDA id : ~Includes(objectIds, id))])
    IN  IF groupId # Null
        THEN Map(updatedGroups, LAMBDA group :
                 IF group.id = groupId
                 THEN [group EXCEPT !.objectIds = group.objectIds \o objectIds]
                 ELSE group)
        ELSE updatedGroups

\* mutant of MoveObjects: only the first object of the batch is updated
MoveObjects_FirstOnly(objectIds, groupId) ==
    Map(objects, LAMBDA obj :
        IF objectIds # <<>> /\ obj.id = objectIds[1]
        THEN [obj EXCEPT !.groupId = groupId]
        ELSE obj)

\* moveObjectsToGroup: updatedObjects
MoveObjects(objectIds, groupId) ==
    Map(objects, LAMBDA obj :
        IF Includes(objectIds, obj.id) THEN [obj EXCEPT !.groupId = groupId] ELSE obj)

\* moveObjectsToGroup(objectIds, groupId)
MoveObjectsToGroup(objectIds, groupId) ==
    /\ groups' = MoveGroups(objectIds, groupId)
    /\ objects' = MoveObjects(objectIds, groupId)
    /\ last' = Call("moveObjectsToGroup", groupId, objectIds)
    /\ UNCHANGED <<selectedObject, transformMode, editMode, geometry, nextId,
                 selectedElements, draggedVertex, draggedEdge, buffers>>

\* addObjectToGroup: updatedObjects
AddToGroupObjects(objectId, groupId) ==
    Map(objects, LAMBDA obj :
        IF obj.id = objectId THEN [obj EXCEPT !.groupId = groupId] ELSE obj)

\* addObjectToGroup: updatedGroups
AddToGroupGroups(objectId, groupId) ==
    Map(groups, LAMBDA group :
        IF group.id = groupId
        THEN [group EXCEPT !.objectIds = Append(group.objectIds, objectId)]
        ELSE group)

\* addObjectToGroup(objectId, groupId)
AddObjectToGroup(objectId, groupId) ==
    /\ objects' = AddToGroupObjects(objectId, groupId)
    /\ groups' = AddToGroupGroups(objectId, groupId)
    /\ last' = Call("addObjectToGroup", groupId, <<objectId>>)
    /\ UNCHANGED <<selectedObject, transformMode, editMode, geometry, nextId,
                 selectedElements, draggedVertex, draggedEdge, buffers>>

\* removeObjectFromGroup: !obj?.groupId, no such object or an object in no group
NotInAGroup(objectId) ==
    ~HasObject(objectId) \/ FindObject(objectId).groupId = Null

\* removeObjectFromGroup: updatedObjects
RemoveFromGroupObjects(objectId) ==
    Map(objects, LAMBDA o :
        IF o.id = objectId THEN [o EXCEPT !.groupId = Null] ELSE o)

\* removeObjectFromGroup: updatedGroups
RemoveFromGroupGroups(objectId) ==
    LET obj == FindObject(objectId)
    IN  Map(groups, LAMBDA group :
            IF group.id = obj.groupId
            THEN [group EXCEPT !.objectIds =
                     Filter(group.objectIds, LAMBDA id : id # objectId)]
            ELSE group)

\* removeObjectFromGroup(objectId)
RemoveObjectFromGroup(objectId) ==
    /\ IF NotInAGroup(objectId)
       THEN UNCHANGED <<objects, groups>>
       ELSE /\ objects' = RemoveFromGroupObjects(objectId)
            /\ groups' = RemoveFromGroupGroups(objectId)
    /\ last' = Call("removeObjectFromGroup", objectId, <<>>)
    /\ UNCHANGED <<selectedObject, transformMode, editMode, geometry, nextId,
                 selectedElements, draggedVertex, draggedEdge, buffers>>

\* setSelectedElements(type, indices)
SetSelectedElements(type, indices) ==
    /\ selectedElements' = [selectedElements EXCEPT ![type] = indices]
    /\ last' = [op |-> "setSelectedElements", type |-> type, indices |-> indices]
    /\ UNCHANGED <<objects, groups, selectedObject, transformMode, editMode, geometry,
                   nextId, draggedVertex, draggedEdge, buffers>>

\* mutant of OverlappingIndices: only indices at the very same position
OverlappingIndices_ExactOnly(positions, index) ==
    Ascending({i \in DOMAIN positions : positions[i] = positions[index]})

\* mutant of OverlappingIndices: the scan starts at the dragged index
OverlappingIndices_ScanFromIndex(positions, index) ==
    Ascending({i \in DOMAIN positions :
                  i >= index /\ Coincide(positions[i], positions[index])})

\* startVertexDrag: overlappingIndices, every index whose position is closer
\* than the epsilon to the position at `index`, in rising order
OverlappingIndices(positions, index) ==
    Ascending({i \in DOMAIN positions : Coincide(positions[i], positions[index])})

\* mutant of NoMeshSelected: only a null selection is turned away
NoMeshSelected_NullOnly == selectedObject = Null

\* startVertexDrag / startEdgeDrag: !(state.selectedObject instanceof THREE.Mesh)
NoMeshSelected == ~IsMesh(selectedObject)

\* startVertexDrag(index, position)
StartVertexDrag(index, position) ==
    /\ IF NoMeshSelected
       THEN UNCHANGED <<draggedVertex, selectedElements>>
       ELSE LET overlappingIndices == OverlappingIndices(buffers[selectedObject], index)
            IN  /\ draggedVertex' = [indices |-> overlappingIndices,
                                     position |-> position,
                                     initialPosition |-> position]
                /\ selectedElements' =
                       [selectedElements EXCEPT !.vertices = overlappingIndices]
    /\ last' = [op |-> "startVertexDrag", index |-> index, position |-> position]
    /\ UNCHANGED <<objects, groups, selectedObject, transformMode, editMode, geometry,
                   nextId, draggedEdge, buffers>>

\* mutant of VertexDragWrite: only the first index of the session is written
VertexDragWrite_FirstOnly(positions, indices, position) ==
    [i \in DOMAIN positions |->
        IF indices # <<>> /\ i = indices[1] THEN position ELSE positions[i]]

\* mutant of VertexDragWrite: the position is added to the one in the buffer
VertexDragWrite_Adds(positions, indices, position) ==
    [i \in DOMAIN positions |->
        IF Includes(indices, i) THEN VAdd(positions[i], position) ELSE positions[i]]

\* mutant of VertexDragWrite: a write past the end makes the buffer longer
VertexDragWrite_Grows(positions, indices, position) ==
    [i \in DOMAIN positions \cup {indices[n] : n \in 1..Len(indices)} |->
        IF Includes(indices, i) THEN position ELSE positions[i]]

\* updateVertexDrag: positions.setXYZ(index, ...) for every index of the
\* session (a write past the end of the typed array changes nothing)
VertexDragWrite(positions, indices, position) ==
    [i \in DOMAIN positions |->
        IF Includes(indices, i) THEN position ELSE positions[i]]

\* mutant of UpdatedVertexSession: the indices are resolved again, against
\* the moved buffer
UpdatedVertexSession_Rederives(session, position) ==
    [session EXCEPT
        !.position = position,
        !.indices = OverlappingIndices(
                        VertexDragWrite(buffers[selectedObject], session.indices, position),
                        session.indices[1])]

\* updateVertexDrag: the draggedVertex of the returned state
UpdatedVertexSession(session, position) == [session EXCEPT !.position = position]

\* updateVertexDrag(position)
UpdateVertexDrag(position) ==
    /\ IF draggedVertex = NoDrag \/ ~IsMesh(selectedObject)
       THEN UNCHANGED <<draggedVertex, buffers>>
       ELSE /\ buffers' = [buffers EXCEPT ![selectedObject] =
                              VertexDragWrite(@, draggedVertex.indices, position)]
            /\ draggedVertex' = UpdatedVertexSession(draggedVertex, position)
    /\ last' = [op |-> "updateVertexDrag", position |-> position]
    /\ UNCHANGED <<objects, groups, selectedObject, transformMode, editMode, geometry,
                   nextId, selectedElements, draggedEdge>>

\* mutant of EndVertexDrag: the edge session is closed as well
EndVertexDrag_EndsBoth ==
    /\ draggedVertex' = NoDrag
    /\ draggedEdge' = NoDrag
    /\ last' = [op |-> "endVertexDrag"]
    /\ UNCHANGED <<objects, groups, selectedObject, transformMode, editMode, geometry,
                   nextId, selectedElements, buffers>>

\* mutant of EndVertexDrag: the initial position is written back at the end
EndVertexDrag_RollsBack ==
    /\ draggedVertex' = NoDrag
    /\ IF draggedVertex = NoDrag \/ ~IsMesh(selectedObject)
       THEN UNCHANGED buffers
       ELSE buffers' = [buffers EXCEPT ![selectedObject] =
                           VertexDragWrite(@, draggedVertex.indices,
                                           draggedVertex.initialPosition)]
    /\ last' = [op |-> "endVertexDrag"]
    /\ UNCHANGED <<objects, groups, selectedObject, transformMode, editMode, geometry,
                   nextId, selectedElements, draggedEdge>>

\* endVertexDrag()
EndVertexDrag ==
    /\ draggedVertex' = NoDrag
    /\ last' = [op |-> "endVertexDrag"]
    /\ UNCHANGED <<objects, groups, selectedObject, transformMode, editMode, geometry,
                   nextId, selectedElements, draggedEdge, buffers>>

\* mutant of FindOverlappingVertices: targetIndex is not put in first
FindOverlappingVertices_NoTarget(positionAttribute, targetIndex) ==
    Ascending({i \in DOMAIN positionAttribute :
                  /\ i # targetIndex
                  /\ Coincide(positionAttribute[i], positionAttribute[targetIndex])})

\* startEdgeDrag: findOverlappingVertices, targetIndex first, then every
\* other index closer than the epsilon to it, in rising order
FindOverlappingVertices(positionAttribute, targetIndex) ==
    <<targetIndex>> \o
    Ascending({i \in DOMAIN positionAttribute :
                  /\ i # targetIndex
                  /\ Coincide(positionAttribute[i], positionAttribute[targetIndex])})

\* Set.prototype.add for every member of seq, in order: a Set keeps its
\* members in insertion order and holds none twice
RECURSIVE AddAll(_, _)
AddAll(set, seq) ==
    IF seq = <<>> THEN set
    ELSE AddAll(IF Includes(set, Head(seq)) THEN set ELSE Append(set, Head(seq)),
                Tail(seq))

\* startEdgeDrag: connectedVertices
ConnectedVertices(vertex1Overlapping, vertex2Overlapping) ==
    AddAll(AddAll(<<>>, vertex1Overlapping), vertex2Overlapping)

\* startEdgeDrag: edges, one pair for every v1 and every v2
EdgePairs(vertex1Overlapping, vertex2Overlapping) ==
    [n \in 1..(Len(vertex1Overlapping) * Len(vertex2Overlapping)) |->
        <<vertex1Overlapping[((n - 1) \div Len(vertex2Overlapping)) + 1],
          vertex2Overlapping[((n - 1) % Len(vertex2Overlapping)) + 1]>>]

\* startEdgeDrag(vertexIndices, positions, midpoint)
StartEdgeDrag(vertexIndices, positions, midpoint) ==
    /\ IF NoMeshSelected
       THEN UNCHANGED <<draggedEdge, selectedElements>>
       ELSE LET positionAttribute == buffers[selectedObject]
                vertex1Overlapping ==
                    FindOverlappingVertices(positionAttribute, vertexIndices[1])
                vertex2Overlapping ==
                    FindOverlappingVertices(positionAttribute, vertexIndices[2])
                connectedVertices ==
                    ConnectedVertices(vertex1Overlapping, vertex2Overlapping)
            IN  /\ draggedEdge' =
                       [indices |-> EdgePairs(vertex1Overlapping, vertex2Overlapping),
                        positions |-> positions,
                        initialPositions |-> positions,
                        connectedVertices |-> connectedVertices,
                        midpoint |-> midpoint]
                /\ selectedElements' =
                       [selectedElements EXCEPT !.edges = connectedVertices]
    /\ last' = [op |-> "startEdgeDrag", vertexIndices |-> vertexIndices,
                positions |-> positions, midpoint |-> midpoint]
    /\ UNCHANGED <<objects, groups, selectedObject, transformMode, editMode, geometry,
                   nextId, draggedVertex, buffers>>

\* mutant of EdgeDragWrite: the offset is added once for every edge pair a
\* vertex is in, not once for every connected vertex
EdgeDragWrite_PerPair(positions, session, position) ==
    LET offset == VSub(position, session.midpoint)
        times(i) == Cardinality({n \in 1..Len(session.indices) :
                                    session.indices[n][1] = i}) +
                    Cardinality({n \in 1..Len(session.indices) :
                                    session.indices[n][2] = i})
        RECURSIVE shifted(_, _)
        shifted(v, n) == IF n = 0 THEN v ELSE shifted(VAdd(v, offset), n - 1)
    IN  [i \in DOMAIN positions |-> shifted(positions[i], times(i))]

\* updateEdgeDrag: offset = position - midpoint, added to the current
\* position of every connected vertex
EdgeDragWrite(positions, session, position) ==
    LET offset == VSub(position, session.midpoint)
    IN  [i \in DOMAIN positions |->
            IF Includes(session.connectedVertices, i)
            THEN VAdd(positions[i], offset)
            ELSE positions[i]]

\* mutant of UpdatedEdgeSession: the midpoint of the start is kept
UpdatedEdgeSession_KeepsMidpoint(session, position) == session

\* updateEdgeDrag: the draggedEdge of the returned state
UpdatedEdgeSession(session, position) == [session EXCEPT !.midpoint = position]

\* updateEdgeDrag(position)
UpdateEdgeDrag(position) ==
    /\ IF draggedEdge = NoDrag \/ ~IsMesh(selectedObject)
       THEN UNCHANGED <<draggedEdge, buffers>>
       ELSE /\ buffers' = [buffers EXCEPT ![selectedObject] =
                              EdgeDragWrite(@, draggedEdge, position)]
            /\ draggedEdge' = UpdatedEdgeSession(draggedEdge, position)
    /\ last' = [op |-> "updateEdgeDrag", position |-> position]
    /\ UNCHANGED <<objects, groups, selectedObject, transformMode, editMode, geometry,
                   nextId, selectedElements, draggedVertex>>

\* endEdgeDrag()
EndEdgeDrag ==
    /\ draggedEdge' = NoDrag
    /\ last' = [op |-> "endEdgeDrag"]
    /\ UNCHANGED <<objects, groups, selectedObject, transformMode, editMode, geometry,
                   nextId, selectedElements, draggedVertex, buffers>>

\* mutant of RegeneratedElements: the vertex selection is kept
RegeneratedElements_KeepsVertices ==
    [vertices |-> selectedElements.vertices, edges |-> <<>>, faces |-> <<>>]

\* updateCylinderVertices / updateSphereVertices: the selectedElements of the
\* returned state
RegeneratedElements == [vertices |-> <<>>, edges |-> <<>>, faces |-> <<>>]

\* updateCylinderVertices: the guard
IsCylinderSelected ==
    /\ IsMesh(selectedObject)
    /\ InstanceOf(geometry[selectedObject], "CylinderGeometry")

\* updateCylinderVertices(vertexCount)
UpdateCylinderVertices(vertexCount) ==
    /\ IF ~IsCylinderSelected
       THEN UNCHANGED <<geometry, buffers, selectedElements>>
       ELSE /\ geometry' = [geometry EXCEPT ![selectedObject] = "cylinder"]
            /\ buffers' = [buffers EXCEPT ![selectedObject] =
                              NewBuffer("cylinder", vertexCount)]
            /\ selectedElements' = RegeneratedElements
    /\ last' = [op |-> "updateCylinderVertices", vertexCount |-> vertexCount]
    /\ UNCHANGED <<objects, groups, selectedObject, transformMode, editMode,
                   nextId, draggedVertex, draggedEdge>>

\* updateSphereVertices: the guard
IsSphereSelected ==
    /\ IsMesh(selectedObject)
    /\ InstanceOf(geometry[selectedObject], "SphereGeometry")

\* mutant of HalfOf: the count itself is handed on
HalfOf_Whole(vertexCount) == <<vertexCount, 1>>

\* updateSphereVertices: vertexCount / 2, a fraction (numerator, denominator)
HalfOf(vertexCount) == <<vertexCount, 2>>

\* Math.floor of a fraction that is not negative
Floor(fraction) == fraction[1] \div fraction[2]

\* Math.max
Max(a, b) == IF a >= b THEN a ELSE b

\* new THREE.SphereGeometry(radius, widthSegments, heightSegments, ...): the
\* segment counts of the geometry it builds; three.js floors both arguments
\* and builds no fewer than 3 and 2 segments
SphereGeometry(widthSegments, heightSegments) ==
    [widthSegments |-> Max(3, Floor(widthSegments)),
     heightSegments |-> Max(2, Floor(heightSegments))]

\* updateSphereVertices: newGeometry
NewSphere(vertexCount) == SphereGeometry(<<vertexCount, 1>>, HalfOf(vertexCount))

\* updateSphereVertices(vertexCount)
UpdateSphereVertices(vertexCount) ==
    /\ IF ~IsSphereSelected
       THEN /\ UNCHANGED <<geometry, buffers, selectedElements>>
            /\ last' = [op |-> "updateSphereVertices", vertexCount |-> vertexCount]
       ELSE /\ geometry' = [geometry EXCEPT ![selectedObject] = "sphere"]
            /\ buffers' = [buffers EXCEPT ![selectedObject] =
                              NewBuffer("sphere", NewSphere(vertexCount).widthSegments)]
            /\ selectedElements' = RegeneratedElements
            /\ last' = [op |-> "updateSphereVertices", vertexCount |-> vertexCount,
                        newGeometry |-> NewSphere(vertexCount)]
    /\ UNCHANGED <<objects, groups, selectedObject, transformMode, editMode,
                   nextId, draggedVertex, draggedEdge>>

\* ids handed out to groups so far (the groups may be removed since)
GroupIds == UsedIds \ Handles

\* the objectIds arguments the calls are given: ids of objects, registered
\* or removed since, none of them twice
Batches == DistinctSeqs(Handles, MaxBatch)

\* the object and group registry; the geometry class plays no part in it,
\* so every mesh is a box
NextGroups ==
    \/ nextId <= MaxIds /\ AddObject("other")
    \/ \E id \in Handles : RemoveObject(id)
    \/ \E ids \in Batches : nextId <= MaxIds /\ CreateGroup(ids)
    \/ \E g \in GroupIds : RemoveGroup(g)
    \/ \E ids \in Batches : \E g \in GroupIds \cup {Null} : MoveObjectsToGroup(ids, g)

SpecGroups == Init /\ [][NextGroups]_vars

\* the registry with the visibility flags and the selection
NextVisibility ==
    \/ nextId <= MaxVisIds /\ AddObject("other")
    \/ \E id \in Handles : RemoveObject(id)
    \/ \E ids \in Batches : nextId <= MaxVisIds /\ CreateGroup(ids)
    \/ \E g \in GroupIds : RemoveGroup(g)
    \/ \E id \in Handles : ToggleVisibility(id)
    \/ \E g \in GroupIds : ToggleGroupVisibility(g)
    \/ \E o \in Handles \cup {Null} : SetSelectedObject(o)

SpecVisibility == Init /\ [][NextVisibility]_vars

\* the selection with the edit and transform modes
Next ==
    \/ \E k \in Kinds : nextId <= MaxMeshes /\ AddObject(k)
    \/ \E id \in Handles : RemoveObject(id)
    \/ \E o \in Handles \cup {Null} : SetSelectedObject(o)
    \/ \E m \in TransformModes : SetTransformMode(m)
    \/ \E m \in EditModes : SetEditMode(m)

Spec == Init /\ [][Next]_vars

\* the positions the drag calls are given
DragPoints == {<<0, 0, 0>>, <<1, 0, 0>>, <<2, 0, 0>>}

\* the vertex indices of the selected object's geometry (none without a mesh:
\* the call returns before it looks at its index arguments)
SelectedIndices ==
    IF IsMesh(selectedObject) THEN DOMAIN buffers[selectedObject] ELSE {0}

\* the edges the drag calls are given: two different vertices
SelectedEdges == {e \in SelectedIndices \X SelectedIndices : e[1] # e[2]} \cup
                 (IF IsMesh(selectedObject) THEN {} ELSE {<<0, 1>>})

\* the endpoint positions a caller reads for an edge
EndpointPositions(e) ==
    IF IsMesh(selectedObject)
    THEN <<buffers[selectedObject][e[1]], buffers[selectedObject][e[2]]>>
    ELSE <<>>

\* every coordinate of the buffer is within the model's box
InBox(buffer) ==
    \A i \in DOMAIN buffer : \A c \in 1..3 :
        buffer[i][c] >= 0 /\ buffer[i][c] <= MaxCoord

\* the selection, the index selection, drag starts and the regenerations on
\* one mesh of any kind; a drag starts only while no other drag is open
NextRegen ==
    \/ \E k \in Kinds : UsedIds = {} /\ AddObject(k)
    \/ \E id \in Handles : RemoveObject(id)
    \/ \E o \in Handles \cup {Null} : SetSelectedObject(o)
    \/ \E m \in EditModes : SetEditMode(m)
    \/ \E t \in {"vertices", "edges", "faces"} : \E ix \in {<<>>, <<0>>} :
           SetSelectedElements(t, ix)
    \/ draggedEdge = NoDrag /\ StartVertexDrag(0, <<1, 0, 0>>)
    \/ EndVertexDrag
    \/ draggedVertex = NoDrag /\ StartEdgeDrag(<<0, 1>>, EndpointPositions(<<0, 1>>), <<1, 0, 0>>)
    \/ EndEdgeDrag
    \/ \E n \in 1..MaxSegments : UpdateCylinderVertices(n)
    \/ \E n \in 1..MaxSegments : UpdateSphereVertices(n)

SpecRegen == Init /\ [][NextRegen]_vars

\* the drag operations on one mesh; a drag starts only while no other drag
\* is open, and an edge drag keeps every vertex within the box
NextDrag ==
    \/ UsedIds = {} /\ AddObject("other")
    \/ \E o \in Handles \cup {Null} : SetSelectedObject(o)
    \/ \E i \in SelectedIndices : \E p \in DragPoints :
           draggedEdge = NoDrag /\ StartVertexDrag(i, p)
    \/ \E p \in DragPoints : UpdateVertexDrag(p)
    \/ EndVertexDrag
    \/ \E e \in SelectedEdges : \E m \in DragPoints :
           draggedVertex = NoDrag /\ StartEdgeDrag(e, EndpointPositions(e), m)
    \/ \E p \in DragPoints :
           /\ IsMesh(selectedObject) /\ draggedEdge # NoDrag =>
                  InBox(EdgeDragWrite(buffers[selectedObject], draggedEdge, p))
           /\ UpdateEdgeDrag(p)
    \/ EndEdgeDrag

SpecDrag == Init /\ [][NextDrag]_vars

\* no objectIds list is longer than a batch
ListsFit == \A i \in 1..Len(groups) : Len(groups[i].objectIds) <= MaxBatch

\* the links between objects and groups: every call that writes a groupId;
\* addObjectToGroup, which can put an id into a list again and again, is
\* called while the lists are short
NextLinks ==
    \/ nextId <= MaxLinkIds /\ AddObject("other")
    \/ \E ids \in Batches : nextId <= MaxLinkIds /\ CreateGroup(ids)
    \/ \E g \in GroupIds : RemoveGroup(g)
    \/ \E id \in Handles : \E g \in GroupIds : ListsFit /\ AddObjectToGroup(id, g)
    \/ \E id \in Handles : RemoveObjectFromGroup(id)
    \/ \E ids \in Batches : \E g \in GroupIds \cup {Null} : MoveObjectsToGroup(ids, g)

SpecLinks == Init /\ [][NextLinks]_vars

\* the meshes of the objects in the list
RegisteredMeshes == {objects[i].object : i \in 1..Len(objects)}

\* the registry, the visibility flags and the selection, setSelectedObject
\* being called with null or the mesh of a registered object only
NextLive ==
    \/ nextId <= MaxVisIds /\ AddObject("other")
    \/ \E id \in Handles : RemoveObject(id)
    \/ \E ids \in Batches : nextId <= MaxVisIds /\ CreateGroup(ids)
    \/ \E g \in GroupIds : RemoveGroup(g)
    \/ \E id \in Handles : ToggleVisibility(id)
    \/ \E g \in GroupIds : ToggleGroupVisibility(g)
    \/ \E o \in RegisteredMeshes \cup {Null} : SetSelectedObject(o)

SpecLive == Init /\ [][NextLive]_vars

\* sphere regenerations of one mesh of any kind, with every count from 1 on
NextSphere ==
    \/ \E k \in Kinds : UsedIds = {} /\ AddObject(k)
    \/ \E o \in Handles \cup {Null} : SetSelectedObject(o)
    \/ \E t \in {"vertices", "edges", "faces"} : \E ix \in {<<>>, <<0>>} :
           SetSelectedElements(t, ix)
    \/ \E n \in 1..MaxSphereCount : UpdateSphereVertices(n)

SpecSphere == Init /\ [][NextSphere]_vars

\* the midpoint every edge drag of the drift specification starts with
StartMidpoint == <<1, 0, 0>>

\* edge drags on one mesh, each started with the same midpoint and moved
\* through any sequence of positions within the box
NextDrift ==
    \/ UsedIds = {} /\ AddObject("other")
    \/ \E o \in Handles \cup {Null} : SetSelectedObject(o)
    \/ \E e \in SelectedEdges : StartEdgeDrag(e, EndpointPositions(e), StartMidpoint)
    \/ \E p \in DragPoints :
           /\ IsMesh(selectedObject) /\ draggedEdge # NoDrag =>
                  InBox(EdgeDragWrite(buffers[selectedObject], draggedEdge, p))
           /\ UpdateEdgeDrag(p)
    \/ EndEdgeDrag

SpecDrift == Init /\ [][NextDrift]_vars

\* the opening and closing of drag sessions on one mesh, in any order
NextSessions ==
    \/ UsedIds = {} /\ AddObject("other")
    \/ \E o \in Handles \cup {Null} : SetSelectedObject(o)
    \/ \E i \in SelectedIndices : \E p \in DragPoints : StartVertexDrag(i, p)
    \/ EndVertexDrag
    \/ \E e \in SelectedEdges : \E m \in DragPoints :
           StartEdgeDrag(e, EndpointPositions(e), m)
    \/ EndEdgeDrag

SpecSessions == Init /\ [][NextSessions]_vars

\* drags and regenerations on one mesh of any kind: a session opened before
\* a regeneration is still open after it
NextCount ==
    \/ \E k \in Kinds : UsedIds = {} /\ AddObject(k)
    \/ \E id \in Handles : RemoveObject(id)
    \/ \E o \in Handles \cup {Null} : SetSelectedObject(o)
    \/ \E i \in SelectedIndices : draggedEdge = NoDrag /\ StartVertexDrag(i, <<1, 0, 0>>)
    \/ UpdateVertexDrag(<<2, 0, 0>>)
    \/ EndVertexDrag
    \/ draggedVertex = NoDrag /\ StartEdgeDrag(<<0, 1>>, EndpointPositions(<<0, 1>>), <<1, 0, 0>>)
    \/ /\ IsMesh(selectedObject) /\ draggedEdge # NoDrag =>
              InBox(EdgeDragWrite(buffers[selectedObject], draggedEdge, <<2, 0, 0>>))
       /\ UpdateEdgeDrag(<<2, 0, 0>>)
    \/ EndEdgeDrag
    \/ \E n \in 1..MaxSegments : UpdateCylinderVertices(n)
    \/ \E n \in 1..MaxSegments : UpdateSphereVertices(n)

SpecCount == Init /\ [][NextCount]_vars
\* ===================================================================
\* Properties
\* ===================================================================
\* seq with every occurrence of a member of the sequence `drop` deleted
RECURSIVE WithoutAll(_, _)
WithoutAll(seq, drop) ==
    IF seq = <<>> THEN <<>>
    ELSE IF Includes(drop, Head(seq))
         THEN WithoutAll(Tail(seq), drop)
         ELSE <<Head(seq)>> \o WithoutAll(Tail(seq), drop)

Range(seq) == {seq[i] : i \in 1..Len(seq)}

\* the entries of objs / gs with the given id
ObjectsWithId(objs, id) == {o \in Range(objs) : o.id = id}
GroupsWithId(gs, id) == {g \in Range(gs) : g.id = id}

\* the groups of gs whose objectIds list holds id
GroupsListing(gs, id) == {g \in Range(gs) : Includes(g.objectIds, id)}

\* C1: group referential integrity: an object id is in a group's objectIds
\* list if and only if that object exists and its groupId is that group's id.
C1_GroupIntegrity ==
    \A g \in Range(groups) : \A id \in UsedIds :
        Includes(g.objectIds, id) <=> (\E o \in ObjectsWithId(objects, id) : o.groupId = g.id)

\* C2: after createGroup(name, objectIds) every id in objectIds is in the new
\* group's list and in no other group's list, and its groupId is the new
\* group's id.
C2_CreateGroupMoves ==
    last.op = "createGroup" =>
        \A k \in 1..Len(last.ids) :
            /\ \A g \in GroupsListing(groups, last.ids[k]) : g.id = last.id
            /\ \E g \in GroupsListing(groups, last.ids[k]) : g.id = last.id
            /\ \A o \in ObjectsWithId(objects, last.ids[k]) : o.groupId = last.id

\* C3: removeObject(id) deletes the object's entry, removes id from every
\* group's list, clears the selection if the removed object was the selected
\* one and otherwise leaves the selection as it was.
C3_RemoveObject ==
    [][last'.op = "removeObject" =>
        LET id == last'.id
        IN  /\ ObjectsWithId(objects', id) = {}
            /\ Range(objects') = {o \in Range(objects) : o.id # id}
            /\ Len(objects') = Len(objects) - Cardinality(ObjectsWithId(objects, id))
            /\ Len(groups') = Len(groups)
            /\ \A i \in 1..Len(groups) :
                   /\ ~Includes(groups'[i].objectIds, id)
                   /\ groups'[i] = [groups[i] EXCEPT
                                      !.objectIds = WithoutAll(groups[i].objectIds, <<id>>)]
            /\ selectedObject' =
                   IF \E o \in ObjectsWithId(objects, id) : o.object = selectedObject
                   THEN Null
                   ELSE selectedObject
    ]_vars

\* C3 witness: removeObject has just deleted an object while other objects,
\* a group and a selection remain
C3_Witness ==
    /\ last.op = "removeObject"
    /\ ObjectsWithId(objects, last.id) = {}
    /\ Len(objects) >= 1
    /\ Len(groups) >= 1
    /\ selectedObject # Null

\* C4: removeGroup(groupId) removes the group, resets to none the groupId of
\* every object that referenced it, and deletes no object.
C4_RemoveGroup ==
    [][last'.op = "removeGroup" =>
        LET g == last'.id
        IN  /\ GroupsWithId(groups', g) = {}
            /\ Range(groups') = {x \in Range(groups) : x.id # g}
            /\ Len(groups') = Len(groups) - Cardinality(GroupsWithId(groups, g))
            /\ Len(objects') = Len(objects)
            /\ \A i \in 1..Len(objects) :
                   /\ objects'[i].id = objects[i].id
                   /\ objects'[i].object = objects[i].object
                   /\ objects'[i].visible = objects[i].visible
                   /\ objects'[i].groupId =
                          IF objects[i].groupId = g THEN Null ELSE objects[i].groupId
    ]_vars

\* C4 witness: removeGroup has removed a group; its former member is still
\* registered, now with no group, beside an object of another group
C4_Witness ==
    /\ last.op = "removeGroup"
    /\ GroupsWithId(groups, last.id) = {}
    /\ \E o \in Range(objects) : o.groupId = Null
    /\ \E o \in Range(objects) : o.groupId # Null
    /\ Len(groups) >= 1

\* C5: moveObjectsToGroup(objectIds, target), target an existing group or
\* none: every named id leaves the list it was in; with a target each id is
\* appended to the target's list and each named object's groupId becomes the
\* target; with no target the groupId becomes none and the id is in no list.
\* Objects and groups not named are unchanged.
C5_MoveObjectsToGroup ==
    [][(/\ last'.op = "moveObjectsToGroup"
        /\ (last'.id = Null \/ HasGroup(last'.id))) =>
        LET ids == last'.ids
            target == last'.id
        IN  /\ Len(groups') = Len(groups)
            /\ \A i \in 1..Len(groups) :
                   /\ groups'[i].id = groups[i].id
                   /\ groups'[i].visible = groups[i].visible
                   /\ groups'[i].objectIds =
                          IF groups[i].id = target
                          THEN WithoutAll(groups[i].objectIds, ids) \o ids
                          ELSE WithoutAll(groups[i].objectIds, ids)
                   /\ (/\ groups[i].id # target
                       /\ \A k \in 1..Len(ids) : ~Includes(groups[i].objectIds, ids[k]))
                      => groups'[i] = groups[i]
            /\ \A k \in 1..Len(ids) :
                   \A g \in GroupsListing(groups', ids[k]) : target # Null /\ g.id = target
            /\ Len(objects') = Len(objects)
            /\ \A i \in 1..Len(objects) :
                   objects'[i] = IF Includes(ids, objects[i].id)
                                 THEN [objects[i] EXCEPT !.groupId = target]
                                 ELSE objects[i]
            /\ UNCHANGED <<selectedObject, transformMode, editMode>>
    ]_vars

\* C5 witness: a two-object move into an existing group, one of the objects
\* coming from another group that still exists
C5_Witness ==
    /\ last.op = "moveObjectsToGroup"
    /\ Len(last.ids) = 2
    /\ \E g \in GroupsWithId(groups, last.id) :
           /\ Len(g.objectIds) >= 2
           /\ SubSeq(g.objectIds, Len(g.objectIds) - 1, Len(g.objectIds)) = last.ids
    /\ \A k \in 1..2 : \E o \in ObjectsWithId(objects, last.ids[k]) : o.groupId = last.id
    /\ Len(groups) >= 2

\* C6: a multi-object moveObjectsToGroup, a createGroup and a removeGroup are
\* each one state transition that applies the whole batch: after the step no
\* named object is unlinked from its old group but not linked to the new one,
\* and no part of the batch is left undone.
C6_BatchAtomic ==
    [][LET ids == last'.ids
           target == last'.id
           named == {i \in 1..Len(objects) : Includes(ids, objects[i].id)}
       IN  /\ last'.op = "moveObjectsToGroup" =>
                /\ \A i \in named : objects'[i].groupId = target
                /\ \A k \in 1..Len(ids) :
                       \A g \in GroupsListing(groups', ids[k]) : g.id = target
                /\ HasGroup(target) =>
                       \A k \in 1..Len(ids) :
                           \E g \in GroupsListing(groups', ids[k]) : g.id = target
           /\ last'.op = "createGroup" =>
                /\ \A i \in named : objects'[i].groupId = target
                /\ \A k \in 1..Len(ids) :
                       \E g \in GroupsListing(groups', ids[k]) : g.id = target
           /\ last'.op = "removeGroup" =>
                /\ GroupsWithId(groups', target) = {}
                /\ \A o \in Range(objects') : o.groupId # target
    ]_vars

\* C6 witness: a two-object move between two existing groups has been applied
\* to both objects
C6_Witness ==
    /\ last.op = "moveObjectsToGroup"
    /\ Len(last.ids) = 2
    /\ GroupsWithId(groups, last.id) # {}
    /\ \A k \in 1..2 :
           /\ \E o \in ObjectsWithId(objects, last.ids[k]) : o.groupId = last.id
           /\ \A g \in GroupsListing(groups, last.ids[k]) : g.id = last.id
    /\ \E g \in Range(groups) : g.id # last.id /\ g.objectIds = <<>>

\* the registered object whose mesh is the selected one, if any
SelectedEntries(objs, sel) == {o \in Range(objs) : o.object = sel}

\* C7: toggleGroupVisibility(g) on an existing group flips the group's flag
\* and gives every member object the group's new flag; the selection becomes
\* none if the selected object is a member and the new flag is false, and is
\* unchanged otherwise; on an unknown group id the state is unchanged.
C7_ToggleGroupVisibility ==
    [][last'.op = "toggleGroupVisibility" =>
        LET gid == last'.id
        IN  IF GroupsWithId(groups, gid) = {}
            THEN UNCHANGED storeVars
            ELSE LET group == CHOOSE g \in GroupsWithId(groups, gid) : TRUE
                     newVisibility == ~group.visible
                 IN  /\ Len(groups') = Len(groups)
                     /\ \A i \in 1..Len(groups) :
                            groups'[i] = IF groups[i].id = gid
                                         THEN [groups[i] EXCEPT !.visible = newVisibility]
                                         ELSE groups[i]
                     /\ Len(objects') = Len(objects)
                     /\ \A i \in 1..Len(objects) :
                            Includes(group.objectIds, objects[i].id)
                                => objects'[i].visible = newVisibility
                     /\ selectedObject' =
                            IF /\ ~newVisibility
                               /\ \E o \in SelectedEntries(objects, selectedObject) :
                                      Includes(group.objectIds, o.id)
                            THEN Null
                            ELSE selectedObject
    ]_vars

\* C7 witness: a group holding a registered member has just been hidden, and
\* the member with it
C7_Witness ==
    /\ last.op = "toggleGroupVisibility"
    /\ \E g \in GroupsWithId(groups, last.id) :
           /\ ~g.visible
           /\ \E o \in Range(objects) : Includes(g.objectIds, o.id) /\ ~o.visible
    /\ selectedObject = Null
    /\ Len(objects) >= 2

\* C8: toggleVisibility(id) flips the visible flag of exactly the object with
\* that id; the selection becomes none if that object becomes invisible and
\* was the selected one, and is unchanged in every other case.
C8_ToggleVisibility ==
    [][last'.op = "toggleVisibility" =>
        LET id == last'.id
        IN  /\ Len(objects') = Len(objects)
            /\ \A i \in 1..Len(objects) :
                   objects'[i] = IF objects[i].id = id
                                 THEN [objects[i] EXCEPT !.visible = ~objects[i].visible]
                                 ELSE objects[i]
            /\ selectedObject' =
                   IF \E o \in ObjectsWithId(objects, id) :
                          o.visible /\ o.object = selectedObject
                   THEN Null
                   ELSE selectedObject
    ]_vars

\* C8 witness: toggleVisibility has just hidden one object while another,
\* visible one is selected
C8_Witness ==
    /\ last.op = "toggleVisibility"
    /\ \E o \in ObjectsWithId(objects, last.id) : ~o.visible
    /\ \E o \in SelectedEntries(objects, selectedObject) : o.visible /\ o.id # last.id

\* C9: hidden objects are never left selected: the selected object, if it is
\* registered, is visible.
C9_SelectedIsVisible ==
    \A o \in SelectedEntries(objects, selectedObject) : o.visible

\* the selected object is a mesh with sphere, cylinder or cone geometry
CurvedSelected ==
    /\ selectedObject # Null
    /\ geometry[selectedObject] \in {"sphere", "cylinder", "cone"}

\* C10: setEditMode('edge') with a sphere, cylinder or cone mesh selected
\* leaves the whole state unchanged; every other setEditMode call sets
\* editMode to the requested mode.
C10_SetEditMode ==
    [][last'.op = "setEditMode" =>
        LET mode == last'.ids[1]
        IN  IF mode = "edge" /\ CurvedSelected
            THEN UNCHANGED storeVars
            ELSE editMode' = mode
    ]_vars

\* C10 witness: an edge request was rejected on a curved primitive while
\* another edit mode was in force
C10_Witness ==
    /\ last.op = "setEditMode"
    /\ last.ids = <<"edge">>
    /\ CurvedSelected
    /\ editMode = "vertex"

\* C10 second witness case: edge mode granted on other geometry
C10_WitnessGranted ==
    /\ last.op = "setEditMode"
    /\ last.ids = <<"edge">>
    /\ selectedObject # Null
    /\ editMode = "edge"

\* o is a mesh with sphere, cylinder or cone geometry
Curved(o) == o # Null /\ geometry[o] \in {"sphere", "cylinder", "cone"}

\* C11: setSelectedObject(o) sets editMode to 'vertex' when o is a mesh with
\* sphere, cylinder or cone geometry; for every other o (other geometry, no
\* mesh, null) editMode keeps the value it had.
C11_SelectForcesVertex ==
    [][last'.op = "setSelectedObject" =>
        editMode' = IF Curved(last'.id) THEN "vertex" ELSE editMode
    ]_vars

\* C11 witness: a sphere has just been selected and the edit mode is vertex
C11_Witness ==
    /\ last.op = "setSelectedObject"
    /\ selectedObject # Null
    /\ geometry[selectedObject] = "sphere"
    /\ editMode = "vertex"

\* C12: setSelectedObject always leaves transformMode = none.
C12_SelectClearsTransform ==
    [][last'.op = "setSelectedObject" => transformMode' = "null"]_vars

\* C12 witness: an object has just been selected and no transform mode is set
C12_Witness ==
    /\ last.op = "setSelectedObject"
    /\ selectedObject # Null
    /\ transformMode = "null"

\* C13: every change of the selected object clears the three index sets:
\* after setSelectedObject, and after any step that changes selectedObject
\* (removeObject of the selected object, a toggle hiding it),
\* selectedElements.vertices, .edges and .faces are all empty.
C13_SelectionChangeClears ==
    [][(last'.op = "setSelectedObject" \/ selectedObject' # selectedObject) =>
        selectedElements' = NoElements
    ]_vars

\* C14: after a setEditMode call that changes editMode,
\* selectedElements.vertices, .edges and .faces are all empty.
C14_EditModeChangeClears ==
    [][(last'.op = "setEditMode" /\ editMode' # editMode) =>
        selectedElements' = NoElements
    ]_vars

\* the selected object is a mesh whose geometry is exactly of kind k
SelectedKind(k) == IsMesh(selectedObject) /\ geometry[selectedObject] = k

\* the step is updateCylinderVertices on a selected cylinder or
\* updateSphereVertices on a selected sphere
SuccessfulRegeneration ==
    \/ last'.op = "updateCylinderVertices" /\ SelectedKind("cylinder")
    \/ last'.op = "updateSphereVertices" /\ SelectedKind("sphere")

\* C15: a successful regeneration (updateCylinderVertices on a selected
\* cylinder, updateSphereVertices on a selected sphere) leaves
\* selectedElements.vertices, .edges and .faces empty, whatever they held, and
\* the selected object has the buffer of the requested vertex count.
C15_RegenerationClears ==
    [][SuccessfulRegeneration =>
        /\ selectedElements' = NoElements
        /\ buffers'[selectedObject] =
               NewBuffer(geometry[selectedObject],
                         IF last'.op = "updateSphereVertices" /\ last'.vertexCount < 3
                         THEN 3
                         ELSE last'.vertexCount)
    ]_vars

\* C15 witness: a cylinder has just been regenerated while a vertex drag that
\* had put indices into selectedElements.vertices is still open, and the
\* three sets are empty
C15_Witness ==
    /\ last.op = "updateCylinderVertices"
    /\ SelectedKind("cylinder")
    /\ Count(buffers[selectedObject]) = last.vertexCount + 1
    /\ draggedVertex # NoDrag
    /\ draggedVertex.indices # <<>>
    /\ selectedElements = NoElements

\* C16: after a successful updateCylinderVertices or updateSphereVertices
\* there is no open vertex or edge drag session: draggedVertex and
\* draggedEdge are null.
C16_RegenerationEndsDrags ==
    [][SuccessfulRegeneration =>
        draggedVertex' = NoDrag /\ draggedEdge' = NoDrag
    ]_vars

\* C17: updateCylinderVertices leaves the state and the geometry unchanged
\* unless the selected object is a mesh with exactly a cylinder geometry
\* (so for a sphere, a cone, any other geometry, a non-mesh, null), and
\* updateSphereVertices leaves them unchanged unless it is exactly a sphere.
C17_RegenerationOnlyMatchingKind ==
    [][(\/ last'.op = "updateCylinderVertices" /\ ~SelectedKind("cylinder")
        \/ last'.op = "updateSphereVertices" /\ ~SelectedKind("sphere")) =>
        UNCHANGED <<storeVars, geometry, buffers>>
    ]_vars

\* every index of the buffer closer than the epsilon to the position at i
Near(buffer, i) == {k \in DOMAIN buffer : DistSq(buffer[k], buffer[i]) < Epsilon * Epsilon}

\* C18: with a mesh selected, after startVertexDrag(i, p) followed by
\* updateVertexDrag(q), every buffer index in the coincident set of i
\* resolved at start holds q, and every index outside it holds the position
\* it had before the update.
C18_VertexDrag ==
    [][(/\ last.op = "startVertexDrag"
        /\ last'.op = "updateVertexDrag"
        /\ IsMesh(selectedObject)) =>
        LET before == buffers[selectedObject]
            after == buffers'[selectedObject]
        IN  /\ Range(draggedVertex.indices) = Near(before, last.index)
            /\ \A k \in DOMAIN before :
                   after[k] = IF k \in Near(before, last.index)
                              THEN last'.position
                              ELSE before[k]
            /\ DOMAIN after = DOMAIN before
    ]_vars

\* C18 witness: an update of a vertex drag has moved two coincident vertices
\* to the dragged position and has left a third vertex somewhere else
C18_Witness ==
    /\ last.op = "updateVertexDrag"
    /\ IsMesh(selectedObject)
    /\ draggedVertex # NoDrag
    /\ Len(draggedVertex.indices) >= 2
    /\ \A n \in 1..Len(draggedVertex.indices) :
           buffers[selectedObject][draggedVertex.indices[n]] = last.position
    /\ \E k \in DOMAIN buffers[selectedObject] :
           /\ ~Includes(draggedVertex.indices, k)
           /\ buffers[selectedObject][k] # last.position

\* C19: with a mesh selected, after startEdgeDrag([i, j], positions, m)
\* followed by updateEdgeDrag(q), every vertex in connectedVertices (the
\* coincident sets of i and of j) is displaced by exactly q - m, once, also
\* when the two sets overlap; every other vertex is unchanged; and the
\* session midpoint is q.
C19_EdgeDrag ==
    [][(/\ last.op = "startEdgeDrag"
        /\ last'.op = "updateEdgeDrag"
        /\ IsMesh(selectedObject)) =>
        LET before == buffers[selectedObject]
            after == buffers'[selectedObject]
            connected == Near(before, last.vertexIndices[1]) \cup
                         Near(before, last.vertexIndices[2])
        IN  /\ Range(draggedEdge.connectedVertices) = connected
            /\ \A k \in DOMAIN before :
                   after[k] = IF k \in connected
                              THEN VAdd(before[k], VSub(last'.position, last.midpoint))
                              ELSE before[k]
            /\ DOMAIN after = DOMAIN before
            /\ draggedEdge'.midpoint = last'.position
    ]_vars

\* C19 witness: an update of an edge drag whose two coincident sets overlap
\* (some vertex is paired with itself) has moved the vertices, and a vertex
\* outside connectedVertices exists
C19_Witness ==
    /\ last.op = "updateEdgeDrag"
    /\ IsMesh(selectedObject)
    /\ draggedEdge # NoDrag
    /\ \E n \in 1..Len(draggedEdge.indices) :
           draggedEdge.indices[n][1] = draggedEdge.indices[n][2]
    /\ draggedEdge.midpoint = last.position
    /\ \E k \in DOMAIN buffers[selectedObject] :
           ~Includes(draggedEdge.connectedVertices, k)
    /\ \E n \in 1..Len(draggedEdge.connectedVertices) :
           buffers[selectedObject][draggedEdge.connectedVertices[n]] # <<0, 0, 0>>

\* C20: for every buffer and every index of it, both resolutions
\* (startVertexDrag's loop and findOverlappingVertices) give exactly the
\* indices closer than the epsilon to the position at i; i is in the set
\* computed for i; and if j is in the set computed for i then i is in the
\* set computed for j.
C20_CoincidenceReflexiveSymmetric ==
    \A h \in Handles :
        \A i \in DOMAIN buffers[h] :
            /\ Range(OverlappingIndices(buffers[h], i)) = Near(buffers[h], i)
            /\ Range(FindOverlappingVertices(buffers[h], i)) = Near(buffers[h], i)
            /\ Includes(OverlappingIndices(buffers[h], i), i)
            /\ Includes(FindOverlappingVertices(buffers[h], i), i)
            /\ \A j \in DOMAIN buffers[h] :
                   /\ Includes(OverlappingIndices(buffers[h], i), j) =>
                          Includes(OverlappingIndices(buffers[h], j), i)
                   /\ Includes(FindOverlappingVertices(buffers[h], i), j) =>
                          Includes(FindOverlappingVertices(buffers[h], j), i)

\* C20 witness: a buffer where coincidence is no equivalence: three different
\* positions, the middle one coincident with both others, which are not
\* coincident with each other
C20_Witness ==
    \E h \in Handles :
        \E i, j, k \in DOMAIN buffers[h] :
            /\ buffers[h][i] # buffers[h][j]
            /\ Includes(OverlappingIndices(buffers[h], i), j)
            /\ Includes(FindOverlappingVertices(buffers[h], j), k)
            /\ ~Includes(OverlappingIndices(buffers[h], i), k)

\* C21: startVertexDrag and startEdgeDrag called while selectedObject is null
\* or no mesh change nothing: no drag session is made, selectedElements and
\* every buffer stay as they were.
C21_StartNeedsMesh ==
    [][(/\ last'.op \in {"startVertexDrag", "startEdgeDrag"}
        /\ ~IsMesh(selectedObject)) =>
        UNCHANGED <<storeVars, geometry, buffers>>
    ]_vars

\* C21 witness: startEdgeDrag has just been called with an Object3D that is
\* no mesh selected, and there is no edge drag session
C21_Witness ==
    /\ last.op = "startEdgeDrag"
    /\ selectedObject # Null
    /\ geometry[selectedObject] = "object3d"
    /\ draggedEdge = NoDrag
    /\ draggedVertex = NoDrag

\* C22: updateVertexDrag with draggedVertex null, updateEdgeDrag with
\* draggedEdge null, and endVertexDrag / endEdgeDrag with no session of their
\* kind leave the whole state and every geometry buffer unchanged.
C22_NoDragNoOp ==
    [][(\/ last'.op \in {"updateVertexDrag", "endVertexDrag"} /\ draggedVertex = NoDrag
        \/ last'.op \in {"updateEdgeDrag", "endEdgeDrag"} /\ draggedEdge = NoDrag) =>
        UNCHANGED <<storeVars, geometry, buffers>>
    ]_vars

\* C22 witness: endVertexDrag has just been called with a mesh selected, no
\* vertex session open, and the vertex selection of an earlier session still
\* in place
C22_Witness ==
    /\ last.op = "endVertexDrag"
    /\ IsMesh(selectedObject)
    /\ draggedVertex = NoDrag
    /\ selectedElements.vertices # <<>>

\* C23: in every reachable state draggedVertex and draggedEdge are not both
\* non-null: a drag started while a session of either kind is open replaces
\* that session.
C23_OneSession == ~(draggedVertex # NoDrag /\ draggedEdge # NoDrag)

\* C24: a step changes the position count of a geometry only if it is an
\* updateCylinderVertices or updateSphereVertices that passed its guard;
\* every other step (drag start, update, end, selection, registry) leaves
\* the count of every geometry as it was.
C24_CountFrame ==
    [][(\E h \in Handles : Count(buffers'[h]) # Count(buffers[h])) =>
        \/ last'.op = "updateCylinderVertices" /\ IsCylinderSelected
        \/ last'.op = "updateSphereVertices" /\ IsSphereSelected
    ]_vars

\* C24 witness: updateVertexDrag has just run with a session whose indices
\* reach past the end of the regenerated buffer, and the buffer has the
\* count the regeneration gave it
C24_Witness ==
    /\ last.op = "updateVertexDrag"
    /\ IsMesh(selectedObject)
    /\ draggedVertex # NoDrag
    /\ \E n \in 1..Len(draggedVertex.indices) :
           draggedVertex.indices[n] \notin DOMAIN buffers[selectedObject]
    /\ \E n \in 1..MaxSegments :
           buffers[selectedObject] = NewBuffer(geometry[selectedObject], n)

\* C25: no two registered objects ever share an id, and addObject appends
\* one entry with an id no object and no group has, visible = true and no
\* group, leaving every existing object, every group and the selection
\* unchanged.
C25_AddObject ==
    /\ [](\A i, j \in 1..Len(objects) : objects[i].id = objects[j].id => i = j)
    /\ [][last'.op = "addObject" =>
            /\ Len(objects') = Len(objects) + 1
            /\ SubSeq(objects', 1, Len(objects)) = objects
            /\ objects'[Len(objects')].visible = TRUE
            /\ objects'[Len(objects')].groupId = Null
            /\ \A i \in 1..Len(objects) : objects[i].id # objects'[Len(objects')].id
            /\ \A i \in 1..Len(groups) : groups[i].id # objects'[Len(objects')].id
            /\ UNCHANGED <<groups, selectedObject>>
       ]_vars

\* C25 witness: an object has just been added next to another one, while a
\* group exists and an object is selected
C25_Witness ==
    /\ last.op = "addObject"
    /\ Len(objects) >= 2
    /\ groups # <<>>
    /\ selectedObject # Null
    /\ objects[Len(objects)].visible
    /\ objects[Len(objects)].groupId = Null

\* C26: in every reachable state each object's groupId is none or the id of
\* a group that is in the group list, whatever createGroup, removeGroup,
\* addObjectToGroup, removeObjectFromGroup and moveObjectsToGroup calls were
\* made.
C26_GroupIdExists ==
    \A i \in 1..Len(objects) :
        objects[i].groupId = Null \/ GroupsWithId(groups, objects[i].groupId) # {}

\* C27: an updateVertexDrag leaves draggedVertex.indices and
\* .initialPosition as they were, and an updateEdgeDrag leaves
\* draggedEdge.connectedVertices, .indices and .initialPositions as they
\* were, so over any number of updates they keep the values of the start,
\* also when the move changes which vertices are coincident.
C27_SessionIndicesFixed ==
    [][/\ (last'.op = "updateVertexDrag" /\ draggedVertex # NoDrag) =>
              /\ draggedVertex' # NoDrag
              /\ draggedVertex'.indices = draggedVertex.indices
              /\ draggedVertex'.initialPosition = draggedVertex.initialPosition
       /\ (last'.op = "updateEdgeDrag" /\ draggedEdge # NoDrag) =>
              /\ draggedEdge' # NoDrag
              /\ draggedEdge'.connectedVertices = draggedEdge.connectedVertices
              /\ draggedEdge'.indices = draggedEdge.indices
              /\ draggedEdge'.initialPositions = draggedEdge.initialPositions
    ]_vars

\* C27 witness: an updateVertexDrag has moved the vertices of the session
\* next to a vertex that is not in the session: resolving the coincident set
\* now would give another set than the one the session holds
C27_Witness ==
    /\ last.op = "updateVertexDrag"
    /\ IsMesh(selectedObject)
    /\ draggedVertex # NoDrag
    /\ draggedVertex.position = last.position
    /\ draggedVertex.indices # <<>>
    /\ Range(draggedVertex.indices) #
           Near(buffers[selectedObject], draggedVertex.indices[1])

\* C28: startVertexDrag(index, p) with a mesh selected makes a session whose
\* indices are the coincident set of index, each once, and whose position
\* and initialPosition are p; selectedElements.vertices is the same list of
\* indices, .edges and .faces are unchanged, and no buffer is written.
C28_StartVertexDrag ==
    [][(last'.op = "startVertexDrag" /\ IsMesh(selectedObject)) =>
        LET coincident == Near(buffers[selectedObject], last'.index)
        IN  /\ draggedVertex' # NoDrag
            /\ Range(draggedVertex'.indices) = coincident
            /\ Len(draggedVertex'.indices) = Cardinality(coincident)
            /\ draggedVertex'.position = last'.position
            /\ draggedVertex'.initialPosition = last'.position
            /\ selectedElements'.vertices = draggedVertex'.indices
            /\ selectedElements'.edges = selectedElements.edges
            /\ selectedElements'.faces = selectedElements.faces
            /\ UNCHANGED buffers
    ]_vars

\* C28 witness: a vertex drag has just started on a vertex that has a
\* coincident vertex at another position, while an edge selection exists
C28_Witness ==
    /\ last.op = "startVertexDrag"
    /\ IsMesh(selectedObject)
    /\ draggedVertex # NoDrag
    /\ selectedElements.vertices = draggedVertex.indices
    /\ selectedElements.edges # <<>>
    /\ \E n \in 1..Len(draggedVertex.indices) :
           buffers[selectedObject][draggedVertex.indices[n]] #
               buffers[selectedObject][last.index]

\* C29: startEdgeDrag([a, b], ...) with a mesh selected makes a session
\* whose connectedVertices are the union of the coincident sets of a and b,
\* each member once, whose edge list is every pair of (coincident set of a)
\* x (coincident set of b), each once; selectedElements.edges is the list of
\* connectedVertices, and .vertices and .faces are unchanged.
C29_StartEdgeDrag ==
    [][(last'.op = "startEdgeDrag" /\ IsMesh(selectedObject)) =>
        LET ofA == Near(buffers[selectedObject], last'.vertexIndices[1])
            ofB == Near(buffers[selectedObject], last'.vertexIndices[2])
        IN  /\ draggedEdge' # NoDrag
            /\ Range(draggedEdge'.connectedVertices) = ofA \cup ofB
            /\ Len(draggedEdge'.connectedVertices) = Cardinality(ofA \cup ofB)
            /\ Range(draggedEdge'.indices) = ofA \X ofB
            /\ Len(draggedEdge'.indices) = Cardinality(ofA \X ofB)
            /\ selectedElements'.edges = draggedEdge'.connectedVertices
            /\ selectedElements'.vertices = selectedElements.vertices
            /\ selectedElements'.faces = selectedElements.faces
    ]_vars

\* C29 witness: an edge drag has just started whose two coincident sets
\* overlap and are not the same, while a vertex selection exists
C29_Witness ==
    /\ last.op = "startEdgeDrag"
    /\ IsMesh(selectedObject)
    /\ draggedEdge # NoDrag
    /\ Len(draggedEdge.indices) >= 2
    /\ \E n \in 1..Len(draggedEdge.indices) :
           draggedEdge.indices[n][1] = draggedEdge.indices[n][2]
    /\ Near(buffers[selectedObject], last.vertexIndices[1]) #
           Near(buffers[selectedObject], last.vertexIndices[2])
    /\ selectedElements.edges = draggedEdge.connectedVertices
    /\ selectedElements.vertices # <<>>

\* C30: after startEdgeDrag with a mesh selected the session's
\* initialPositions holds one position for each member of connectedVertices:
\* as many entries as members, and the position every member has in the
\* buffer is among them.
C30_InitialPositionsCoverConnected ==
    [][(last'.op = "startEdgeDrag" /\ IsMesh(selectedObject)) =>
        /\ draggedEdge' # NoDrag
        /\ Len(draggedEdge'.initialPositions) = Len(draggedEdge'.connectedVertices)
        /\ \A n \in 1..Len(draggedEdge'.connectedVertices) :
               Includes(draggedEdge'.initialPositions,
                        buffers[selectedObject][draggedEdge'.connectedVertices[n]])
    ]_vars

\* C31: endVertexDrag sets draggedVertex to null and endEdgeDrag sets
\* draggedEdge to null, and neither changes anything else: every buffer
\* keeps the positions the last update wrote, and selectedObject, editMode,
\* transformMode, selectedElements and the other session are as before.
C31_EndOnlyClears ==
    [][/\ last'.op = "endVertexDrag" =>
              /\ draggedVertex' = NoDrag
              /\ UNCHANGED <<objects, groups, selectedObject, transformMode, editMode,
                             selectedElements, draggedEdge, geometry, buffers>>
       /\ last'.op = "endEdgeDrag" =>
              /\ draggedEdge' = NoDrag
              /\ UNCHANGED <<objects, groups, selectedObject, transformMode, editMode,
                             selectedElements, draggedVertex, geometry, buffers>>
    ]_vars

\* C31 witness: a vertex drag has just ended; the vertices it had selected
\* are where the drag put them, at a position no new buffer has, and they
\* are still in selectedElements.vertices
C31_Witness ==
    /\ last.op = "endVertexDrag"
    /\ IsMesh(selectedObject)
    /\ draggedVertex = NoDrag
    /\ selectedElements.vertices # <<>>
    /\ \A n \in 1..Len(selectedElements.vertices) :
           buffers[selectedObject][selectedElements.vertices[n]] = <<2, 0, 0>>

C33_UpdateIdempotent ==
    [][(\/ /\ last.op = "updateVertexDrag"
           /\ last'.op = "updateVertexDrag"
           /\ last'.position = last.position
        \/ /\ last.op = "updateEdgeDrag"
           /\ last'.op = "updateEdgeDrag"
           /\ last'.position = last.position) =>
        UNCHANGED <<storeVars, geometry, buffers>>
    ]_vars

\* C33 witness: an updateEdgeDrag has moved the edge away from where it
\* started, and the same call again would write the same buffer and session
C33_Witness ==
    /\ last.op = "updateEdgeDrag"
    /\ IsMesh(selectedObject)
    /\ draggedEdge # NoDrag
    /\ draggedEdge.initialPositions[1] #
           buffers[selectedObject][draggedEdge.indices[1][1]]
    /\ EdgeDragWrite(buffers[selectedObject], draggedEdge, last.position) =
           buffers[selectedObject]
    /\ UpdatedEdgeSession(draggedEdge, last.position) = draggedEdge

\* C34 as stated: updateSphereVertices(n) on a selected sphere builds the new
\* geometry with n width segments and floor(n / 2) height segments, for
\* every n.
C34_SphereSegments ==
    [][(last'.op = "updateSphereVertices" /\ SelectedKind("sphere")) =>
        /\ last'.newGeometry.widthSegments = last'.vertexCount
        /\ 2 * last'.newGeometry.heightSegments <= last'.vertexCount
        /\ last'.vertexCount < 2 * last'.newGeometry.heightSegments + 2
    ]_vars

\* C34 amended: updateSphereVertices(n) on a selected sphere with n >= 4
\* builds the new geometry with n width segments and floor(n / 2) height
\* segments, also for odd n; for smaller n it builds 3 width segments (n < 3)
\* and 2 height segments (n < 4).
C34_SphereSegmentsFromFour ==
    [][(last'.op = "updateSphereVertices" /\ SelectedKind("sphere")) =>
        IF last'.vertexCount >= 4
        THEN /\ last'.newGeometry.widthSegments = last'.vertexCount
             /\ 2 * last'.newGeometry.heightSegments <= last'.vertexCount
             /\ last'.vertexCount < 2 * last'.newGeometry.heightSegments + 2
        ELSE /\ last'.newGeometry.widthSegments = (IF last'.vertexCount < 3 THEN 3
                                                   ELSE last'.vertexCount)
             /\ last'.newGeometry.heightSegments = 2
    ]_vars

\* C34 witness: a sphere has just been regenerated with an odd count of at
\* least five
C34_Witness ==
    /\ last.op = "updateSphereVertices"
    /\ SelectedKind("sphere")
    /\ last.vertexCount >= 5
    /\ last.vertexCount % 2 = 1
    /\ last.newGeometry.widthSegments = last.vertexCount
    /\ 2 * last.newGeometry.heightSegments = last.vertexCount - 1
    /\ Count(buffers[selectedObject]) = last.vertexCount + 1

\* C35: in every state reached through setSelectedObject, setEditMode and
\* the regenerations, if the selected object is a mesh with sphere, cylinder
\* or cone geometry then editMode is not 'edge'.
C35_NoEdgeOnCurved == CurvedSelected => editMode # "edge"

\* C35 witness: a cone regenerated into a cylinder is selected, edge mode has
\* just been asked for, and the edit mode is vertex
C35_Witness ==
    /\ last.op = "setEditMode"
    /\ last.ids = <<"edge">>
    /\ SelectedKind("cylinder")
    /\ buffers[selectedObject] # InitialBuffer("cylinder")
    /\ editMode = "vertex"

\* C36: whenever draggedVertex or draggedEdge is non-null, a mesh is
\* selected (the one the session was started on): no call leaves a session
\* alive with nothing selected.
C36_SessionHasMesh ==
    (draggedVertex # NoDrag \/ draggedEdge # NoDrag) => IsMesh(selectedObject)

\* the number of times id is in the list
Occurrences(list, id) == Cardinality({n \in 1..Len(list) : list[n] = id})

\* C37: after addObjectToGroup(objectId, groupId), for a registered object
\* and a group that exists, objectId is exactly once in the objectIds of that
\* group and in no other group's list.
C37_AddToGroupExclusive ==
    [][(/\ last'.op = "addObjectToGroup"
        /\ HasObject(last'.ids[1])
        /\ HasGroup(last'.id)) =>
        \A i \in 1..Len(groups') :
            Occurrences(groups'[i].objectIds, last'.ids[1]) =
                (IF groups'[i].id = last'.id THEN 1 ELSE 0)
    ]_vars

\* C38: when setSelectedObject is called with null or the mesh of a
\* registered object only, selectedObject is always null or the mesh of an
\* object in the object list.
C38_SelectionLive == selectedObject = Null \/ selectedObject \in RegisteredMeshes

\* C38 witness: an object has just been removed while another one, still in
\* the list, stays selected
C38_Witness ==
    /\ last.op = "removeObject"
    /\ ~HasObject(last.id)
    /\ selectedObject # Null
    /\ selectedObject \in RegisteredMeshes

====
